---- MODULE Spec2Model ----
(***************************************************************************)
(* Model of the conversation session of src/frontend/src/App.tsx: the     *)
(* React state of the App component, its event handlers, the callbacks of  *)
(* the FileReader and of the speech recogniser, and the continuation of    *)
(* handleSendMessage across its two awaits (fetch, response.json).         *)
(*                                                                         *)
(* One action is one browser task: a handler runs to completion and React  *)
(* re-renders before the next event, so each handler reads the state of    *)
(* the latest render.                                                      *)
(*                                                                         *)
(* Strings are sequences of tokens; the token " " is a whitespace          *)
(* character, every other token stands for a run of non-whitespace text.   *)
(* Message.timestamp (new Date(), a wall-clock reading) is not modelled.   *)
(***************************************************************************)
EXTENDS Naturals, Sequences, FiniteSets

VARIABLES
    messages,        \* useState<Message[]>                       (l.37)
    inputText,       \* useState('')                              (l.47)
    selectedAgent,   \* useState('auto')                          (l.48)
    isLoading,       \* useState(false)                           (l.49)
    selectedImage,   \* useState<File | null>(null)               (l.50)
    imagePreview,    \* useState<string | null>(null)             (l.51)
    isListening,     \* useState(false)                           (l.53)
    fileInputValue,  \* fileInputRef.current.value                (l.56, l.110)
    chooserOpen,     \* the file chooser of the hidden input is open (l.376-387)
    hasRecognition,  \* recognitionRef.current was created        (l.70-72)
    recSession,      \* the recogniser's capture session
    readers,         \* FileReaders whose readAsDataURL is pending (l.97-101)
    handlers,        \* handleSendMessage calls suspended at an await (l.145, l.163)
    fetchCalls,      \* number of fetch() calls made so far       (l.145)
    nextId           \* source of fresh uuidv4() values           (l.129, l.167)

vars == <<messages, inputText, selectedAgent, isLoading, selectedImage,
          imagePreview, isListening, fileInputValue, chooserOpen,
          hasRecognition, recSession, readers, handlers, fetchCalls, nextId>>

chatVars  == <<messages, isLoading, handlers, fetchCalls, nextId>>
draftVars == <<inputText, selectedImage, imagePreview, fileInputValue>>
imageVars == <<selectedImage, imagePreview, fileInputValue, chooserOpen, readers>>
voiceVars == <<isListening, hasRecognition, recSession>>

----------------------------------------------------------------------------
(* JavaScript values.  Every value a state variable or a message field can *)
(* hold is a sequence of tokens, so that any two of them can be compared;  *)
(* tokens starting with # are reserved for the non-string values.          *)

Null      == <<"#null">>
Undefined == <<"#undefined">>
JsTrue    == <<"#true">>
JsFalse   == <<"#false">>
EmptyStr  == << >>

\* ToBoolean, as applied by ||, ! and if
Truthy(v) == v \notin {Null, Undefined, JsFalse, EmptyStr}

\* a || b
OrElse(a, b) == IF Truthy(a) THEN a ELSE b

IsSpace(c) == c = " "

RECURSIVE TrimStart(_)
TrimStart(s) ==
    IF s = << >> THEN << >>
    ELSE IF IsSpace(Head(s)) THEN TrimStart(Tail(s)) ELSE s

RECURSIVE TrimEnd(_)
TrimEnd(s) ==
    IF s = << >> THEN << >>
    ELSE IF IsSpace(s[Len(s)]) THEN TrimEnd(SubSeq(s, 1, Len(s) - 1)) ELSE s

\* String.prototype.trim
Trim(s) == TrimEnd(TrimStart(s))

\* Array.prototype.slice(-n)
SliceLast(s, n) == IF Len(s) <= n THEN s ELSE SubSeq(s, Len(s) - n + 1, Len(s))

\* uuidv4(): a fresh identifier, never the literal '1' of the welcome turn
Uuid(n) == <<"uuid", n>>

\* a File object picked in the file input, by name
File(name) == <<"#file", name>>

\* FileReader.readAsDataURL(f): reader.result once the read has succeeded
DataURL(f) == <<"data:image;base64,", f[2]>>

----------------------------------------------------------------------------
(* Program constants *)

AGENTS == {"auto", "medical-chat", "prescription", "multi-agent"}

HistoryWindow == 10

\* the texts of l.179 and l.191 without the cross-mark emoji they start with
System           == <<"System">>
AnalyzeThisImage == <<"Analyze this image">>
ErrorPrefix      == <<"Error: ">>
FailedToProcess  == <<"Failed to process request">>
FailedToConnect  == <<"Failed to connect to the server. Please ensure the backend is running.">>

WelcomeMessage ==
    [id |-> <<"literal", 1>>, role |-> "assistant", content |-> <<"# Welcome">>,
     agent |-> System, image |-> Undefined, requiresValidation |-> Undefined]

----------------------------------------------------------------------------
(* Bounds and the inputs the events are drawn from *)

MaxSubmits == 1      \* accepted submits explored by Spec
MaxReaders == 1      \* FileReaders pending at once in Spec

\* values the textarea can report
Texts == { << >>, <<" ">>, <<" ", "hi", " ">> }

\* files the user can pick
Files == { File("A") }

\* final transcripts the recogniser can deliver
Transcripts == { <<"chest", " ", "pain">> }

\* bodies response.json() can resolve to; "null" is the JSON literal null
Body(kind, success, response, agent, error, requires_validation) ==
    [kind |-> kind, success |-> success, response |-> response,
     agent |-> agent, error |-> error,
     requires_validation |-> requires_validation]

SuccessBody ==
    Body("object", JsTrue, <<"**ok**">>, <<"Medical Chat">>, Undefined, JsTrue)
PlainSuccessBody ==
    Body("object", JsTrue, <<"plain">>, Undefined, Undefined, Undefined)
FailureBody ==
    Body("object", JsFalse, Undefined, Undefined, <<"rate", " ", "limited">>,
         Undefined)
FailureNoErrorBody ==
    Body("object", JsFalse, Undefined, Undefined, Undefined, Undefined)
EmptyObjectBody ==
    Body("object", Undefined, Undefined, Undefined, EmptyStr, Undefined)
NullBody ==
    Body("null", Undefined, Undefined, Undefined, Undefined, Undefined)

Bodies == { SuccessBody, FailureBody, NullBody }

\* SpecChat: the submission pipeline alone, over more exchanges
MaxChatSubmits == 3

ChatTexts == { << >>, <<" ">>, <<"hi">>, <<" ", "hi", " ">>, <<"a", " ", "b">> }

ChatBodies == { SuccessBody, PlainSuccessBody, FailureBody,
                FailureNoErrorBody, EmptyObjectBody, NullBody }

\* SpecChatLive: the pipeline under a transport that always settles
MaxLiveSubmits == 2

\* SpecVoice: dictation around the submission pipeline
MaxVoiceSubmits == 2

\* SpecImage: two files and their encodings around the submission pipeline
MaxImageSubmits == 1
MaxImageReaders == 2

ImageFiles == { File("A"), File("B") }

ImageTexts == { << >>, <<"hi">> }

ImageBodies == { SuccessBody }

\* SpecHistory: logs longer than the history window
MaxHistorySubmits == 6

HistoryTexts == { <<"q1">>, <<"q2">> }

HistoryBodies == { SuccessBody }

RECURSIVE SumOver(_, _)
SumOver(f, S) ==
    IF S = {} THEN 0
    ELSE LET x == CHOOSE y \in S : TRUE IN f[x] + SumOver(f, S \ {x})

PendingReaders == SumOver(readers, ImageFiles)

----------------------------------------------------------------------------
(* Initial state: the first render of App *)

Init ==
    /\ messages = <<WelcomeMessage>>
    /\ inputText = EmptyStr
    /\ selectedAgent = "auto"
    /\ isLoading = FALSE
    /\ selectedImage = Null
    /\ imagePreview = Null
    /\ isListening = FALSE
    /\ fileInputValue = EmptyStr
    /\ chooserOpen = FALSE
    /\ hasRecognition \in BOOLEAN
    /\ recSession = "inactive"
    /\ readers = [f \in ImageFiles |-> 0]
    /\ handlers = {}
    /\ fetchCalls = 0
    /\ nextId = 2

----------------------------------------------------------------------------
(* Draft editing *)

\* variant of SetInputText: the textarea is not disabled while isLoading
SetInputTextWhileLoading(t) ==
    /\ inputText' = t
    /\ UNCHANGED <<messages, selectedAgent, isLoading, selectedImage,
                   imagePreview, isListening, fileInputValue, hasRecognition, chooserOpen,
                   recSession, readers, handlers, fetchCalls, nextId>>

\* textarea onChange (l.404-413); the textarea is disabled while isLoading
SetInputText(t) ==
    /\ ~isLoading
    /\ inputText' = t
    /\ UNCHANGED <<messages, selectedAgent, isLoading, selectedImage,
                   imagePreview, isListening, fileInputValue, hasRecognition, chooserOpen,
                   recSession, readers, handlers, fetchCalls, nextId>>

\* sidebar agent button onClick (l.233-235)
SetSelectedAgent(a) ==
    /\ selectedAgent' = a
    /\ UNCHANGED <<messages, inputText, isLoading, selectedImage,
                   imagePreview, isListening, fileInputValue, hasRecognition, chooserOpen,
                   recSession, readers, handlers, fetchCalls, nextId>>

----------------------------------------------------------------------------
(* Image attachment *)

\* the attach button's onClick, fileInputRef.current?.click() (l.384-390):
\* the hidden file input opens its chooser.  The button is disabled while
\* isLoading; the input itself (l.376-382) never is.
ClickAttachImage ==
    /\ ~isLoading
    /\ ~chooserOpen
    /\ chooserOpen' = TRUE
    /\ UNCHANGED <<messages, inputText, selectedAgent, isLoading,
                   selectedImage, imagePreview, isListening, fileInputValue,
                   hasRecognition, recSession, readers, handlers, fetchCalls,
                   nextId>>

\* the chooser is closed without a change event
ChooserCancelled ==
    /\ chooserOpen
    /\ chooserOpen' = FALSE
    /\ UNCHANGED <<messages, inputText, selectedAgent, isLoading,
                   selectedImage, imagePreview, isListening, fileInputValue,
                   hasRecognition, recSession, readers, handlers, fetchCalls,
                   nextId>>

\* handleImageSelect (l.93-103) with a file chosen.  The change event is
\* delivered when the open chooser is answered, in a task of its own: a
\* submit may have run since the chooser was opened, and the handler does
\* not test isLoading.  The input reports a change only when its value
\* changes.
HandleImageSelect(f) ==
    /\ chooserOpen
    /\ fileInputValue # f
    /\ chooserOpen' = FALSE
    /\ fileInputValue' = f
    /\ selectedImage' = f
    /\ readers' = [readers EXCEPT ![f] = @ + 1]
    /\ UNCHANGED <<messages, inputText, selectedAgent, isLoading,
                   imagePreview, isListening, hasRecognition, recSession,
                   handlers, fetchCalls, nextId>>

\* handleImageSelect with e.target.files empty (the chooser was dismissed and
\* the input lost its value): `if (file)` is false
HandleImageSelectNoFile ==
    /\ chooserOpen
    /\ fileInputValue # EmptyStr
    /\ chooserOpen' = FALSE
    /\ fileInputValue' = EmptyStr
    /\ UNCHANGED <<messages, inputText, selectedAgent, isLoading,
                   selectedImage, imagePreview, isListening, hasRecognition,
                   recSession, readers, handlers, fetchCalls, nextId>>

\* reader.onloadend (l.98-100): reader.result is the data URL, or null when
\* the read failed
ReaderOnLoadEnd(f, ok) ==
    /\ readers[f] > 0
    /\ readers' = [readers EXCEPT ![f] = @ - 1]
    /\ imagePreview' = IF ok THEN DataURL(f) ELSE Null
    /\ UNCHANGED <<messages, inputText, selectedAgent, isLoading,
                   selectedImage, isListening, fileInputValue, hasRecognition, chooserOpen,
                   recSession, handlers, fetchCalls, nextId>>

\* variant of removeImage: the preview is not reset
removeImageKeepsPreview ==
    /\ selectedImage' = Null
    /\ UNCHANGED imagePreview
    /\ fileInputValue' = EmptyStr

\* removeImage (l.106-112)
removeImage ==
    /\ selectedImage' = Null
    /\ imagePreview' = Null
    /\ fileInputValue' = EmptyStr

\* the remove button, rendered only while imagePreview is set (l.363-372)
ClickRemoveImage ==
    /\ Truthy(imagePreview)
    /\ removeImage
    /\ UNCHANGED <<messages, inputText, selectedAgent, isLoading,
                   isListening, hasRecognition, chooserOpen, recSession, readers,
                   handlers, fetchCalls, nextId>>

----------------------------------------------------------------------------
(* Voice capture *)

\* toggleVoiceInput (l.115-123); the button is disabled while isLoading
\* (l.393-395).  recognitionRef.current?.start() does nothing without a
\* recogniser and throws InvalidStateError, ending the handler, when the
\* recogniser's session has not ended yet.
ToggleVoiceInput ==
    /\ ~isLoading
    /\ IF isListening
       THEN /\ isListening' = FALSE
            /\ UNCHANGED recSession
       ELSE IF ~hasRecognition
       THEN /\ isListening' = TRUE
            /\ UNCHANGED recSession
       ELSE IF recSession = "inactive"
       THEN /\ recSession' = "capturing"
            /\ isListening' = TRUE
       ELSE UNCHANGED <<isListening, recSession>>
    /\ UNCHANGED <<messages, inputText, selectedAgent, isLoading,
                   selectedImage, imagePreview, fileInputValue,
                   hasRecognition, chooserOpen, readers, handlers, fetchCalls, nextId>>

\* variant of RecognitionOnResult: the transcript is added to the draft text
RecognitionOnResultAppends(transcript) ==
    /\ hasRecognition
    /\ recSession = "capturing"
    /\ inputText' = inputText \o transcript
    /\ isListening' = FALSE
    /\ recSession' = "ending"
    /\ UNCHANGED <<messages, selectedAgent, isLoading, selectedImage,
                   imagePreview, fileInputValue, hasRecognition, chooserOpen, readers,
                   handlers, fetchCalls, nextId>>

\* recognition.onresult (l.76-80): one final result per session
\* (continuous = false, interimResults = false)
RecognitionOnResult(transcript) ==
    /\ hasRecognition
    /\ recSession = "capturing"
    /\ inputText' = transcript
    /\ isListening' = FALSE
    /\ recSession' = "ending"
    /\ UNCHANGED <<messages, selectedAgent, isLoading, selectedImage,
                   imagePreview, fileInputValue, hasRecognition, chooserOpen, readers,
                   handlers, fetchCalls, nextId>>

\* variant of RecognitionOnError: the handler also resets the draft text
RecognitionOnErrorClearsText ==
    /\ hasRecognition
    /\ recSession = "capturing"
    /\ inputText' = EmptyStr
    /\ isListening' = FALSE
    /\ recSession' = "ending"
    /\ UNCHANGED <<messages, selectedAgent, isLoading, selectedImage,
                   imagePreview, fileInputValue, hasRecognition, chooserOpen, readers,
                   handlers, fetchCalls, nextId>>

\* recognition.onerror (l.82-84)
RecognitionOnError ==
    /\ hasRecognition
    /\ recSession = "capturing"
    /\ isListening' = FALSE
    /\ recSession' = "ending"
    /\ UNCHANGED <<messages, inputText, selectedAgent, isLoading,
                   selectedImage, imagePreview, fileInputValue,
                   hasRecognition, chooserOpen, readers, handlers, fetchCalls, nextId>>

\* recognition.onend (l.86-88)
RecognitionOnEnd ==
    /\ hasRecognition
    /\ recSession \in {"capturing", "ending"}
    /\ isListening' = FALSE
    /\ recSession' = "inactive"
    /\ UNCHANGED <<messages, inputText, selectedAgent, isLoading,
                   selectedImage, imagePreview, fileInputValue,
                   hasRecognition, chooserOpen, readers, handlers, fetchCalls, nextId>>

----------------------------------------------------------------------------
(* Submission pipeline: handleSendMessage (l.126-199) *)

\* variant of CanSend: the early return does not test isLoading
CanSendWhileLoading ==
    ~(~Truthy(Trim(inputText)) /\ ~Truthy(selectedImage))

\* variant of CanSend: the early return does not test the draft
CanSendEmptyDraft == ~isLoading

\* the negation of the early-return condition (l.127)
CanSend ==
    ~((~Truthy(Trim(inputText)) /\ ~Truthy(selectedImage)) \/ isLoading)

\* variant of UserMessage: the draft text is used without trim()
UserMessageUntrimmed ==
    [id |-> Uuid(nextId), role |-> "user",
     content |-> OrElse(inputText, AnalyzeThisImage),
     agent |-> Undefined,
     image |-> OrElse(imagePreview, Undefined),
     requiresValidation |-> Undefined]

\* userMessage (l.129-136)
UserMessage ==
    [id |-> Uuid(nextId), role |-> "user",
     content |-> OrElse(Trim(inputText), AnalyzeThisImage),
     agent |-> Undefined,
     image |-> OrElse(imagePreview, Undefined),
     requiresValidation |-> Undefined]

\* one element of the history array (l.152-157)
HistoryEntry(m) == [role |-> m.role, content |-> m.content, agent |-> m.agent]

\* variant of RequestHistory: the window is cut from the log that already
\* holds the new user turn
RequestHistoryWithNewTurn(msgs) ==
    LET tail == SliceLast(Append(msgs, UserMessage), HistoryWindow)
    IN  [i \in 1..Len(tail) |-> HistoryEntry(tail[i])]

\* variant of RequestHistory: slice(0, 10), the oldest turns
RequestHistoryOldest(msgs) ==
    LET head == SubSeq(msgs, 1, IF Len(msgs) <= HistoryWindow THEN Len(msgs) ELSE HistoryWindow)
    IN  [i \in 1..Len(head) |-> HistoryEntry(head[i])]

\* messages.slice(-10).map(...) (l.152-157)
RequestHistory(msgs) ==
    LET tail == SliceLast(msgs, HistoryWindow)
    IN  [i \in 1..Len(tail) |-> HistoryEntry(tail[i])]

\* variant of RequestBody: the routing hint is always the default agent
RequestBodyAutoAgent ==
    [message |-> UserMessage.content,
     history |-> RequestHistory(messages),
     image |-> imagePreview,
     agent_type |-> "auto"]

\* variant of RequestBody: the image is read after removeImage() has run
RequestBodyImageAfterClear ==
    [message |-> UserMessage.content,
     history |-> RequestHistory(messages),
     image |-> Null,
     agent_type |-> selectedAgent]

\* the object given to JSON.stringify (l.150-160); `messages` is the log of
\* the render the handler was created in, `currentImage` is l.140
RequestBody ==
    [message |-> UserMessage.content,
     history |-> RequestHistory(messages),
     image |-> imagePreview,
     agent_type |-> selectedAgent]

\* variant of AssistantMessage: the validation flag is not copied
AssistantMessageNoFlag(data) ==
    [id |-> Uuid(nextId), role |-> "assistant", content |-> data.response,
     agent |-> data.agent, image |-> Undefined,
     requiresValidation |-> Undefined]

\* assistantMessage (l.166-173)
AssistantMessage(data) ==
    [id |-> Uuid(nextId), role |-> "assistant", content |-> data.response,
     agent |-> data.agent, image |-> Undefined,
     requiresValidation |-> data.requires_validation]

\* variant of ErrorMessage: data.error is ignored
ErrorMessageGeneric(data) ==
    [id |-> Uuid(nextId), role |-> "assistant",
     content |-> ErrorPrefix \o FailedToProcess,
     agent |-> System, image |-> Undefined,
     requiresValidation |-> Undefined]

\* errorMessage of the else branch (l.176-182)
ErrorMessage(data) ==
    [id |-> Uuid(nextId), role |-> "assistant",
     content |-> ErrorPrefix \o OrElse(data.error, FailedToProcess),
     agent |-> System, image |-> Undefined,
     requiresValidation |-> Undefined]

\* variant of ConnectErrorMessage: the catch block reuses the else branch's text
ConnectErrorMessageAsProcessError ==
    [id |-> Uuid(nextId), role |-> "assistant",
     content |-> ErrorPrefix \o FailedToProcess,
     agent |-> System, image |-> Undefined,
     requiresValidation |-> Undefined]

\* errorMessage of the catch block (l.188-194)
ConnectErrorMessage ==
    [id |-> Uuid(nextId), role |-> "assistant", content |-> FailedToConnect,
     agent |-> System, image |-> Undefined,
     requiresValidation |-> Undefined]

\* a call of handleSendMessage suspended at `await fetch(...)` (pc "fetch")
\* or at `await response.json()` (pc "json"); body is what it posted
Handler(n, at, body) == [call |-> n, pc |-> at, body |-> body]

\* variant of AppendAndSettle: no finally block, isLoading is not reset
SettleStillLoading(h, m) ==
    /\ messages' = Append(messages, m)
    /\ nextId' = nextId + 1
    /\ UNCHANGED isLoading
    /\ handlers' = handlers \ {h}

\* variant of AppendAndSettle: the reply replaces the optimistic user turn
ReplaceLastAndSettle(h, m) ==
    /\ messages' = Append(SubSeq(messages, 1, Len(messages) - 1), m)
    /\ nextId' = nextId + 1
    /\ isLoading' = FALSE
    /\ handlers' = handlers \ {h}

\* variant of AppendAndSettle: the turn is not appended
SettleWithoutTurn(h, m) ==
    /\ UNCHANGED <<messages, nextId>>
    /\ isLoading' = FALSE
    /\ handlers' = handlers \ {h}

\* setMessages(prev => [...prev, m]) followed by the finally block
\* (l.174, l.183, l.195-198): call h is over
AppendAndSettle(h, m) ==
    /\ messages' = Append(messages, m)
    /\ nextId' = nextId + 1
    /\ isLoading' = FALSE
    /\ handlers' = handlers \ {h}

\* variant of HandleSendMessageReturn: a submit during a request cancels it
HandleSendMessageReturnCancels ==
    /\ ~CanSend
    /\ isLoading' = FALSE
    /\ handlers' = {}
    /\ UNCHANGED <<messages, inputText, selectedAgent, selectedImage,
                   imagePreview, isListening, fileInputValue, hasRecognition, chooserOpen,
                   recSession, readers, fetchCalls, nextId>>

\* l.127: the early return
HandleSendMessageReturn ==
    /\ ~CanSend
    /\ UNCHANGED vars

\* variant of HandleSendMessageSubmit: setIsLoading(true) is left out
HandleSendMessageSubmitNotLoading ==
    /\ CanSend
    /\ messages' = Append(messages, UserMessage)
    /\ nextId' = nextId + 1
    /\ inputText' = EmptyStr
    /\ removeImage
    /\ UNCHANGED isLoading
    /\ fetchCalls' = fetchCalls + 1
    /\ handlers' = handlers \cup {Handler(fetchCalls + 1, "fetch", RequestBody)}
    /\ UNCHANGED <<selectedAgent, isListening, hasRecognition, chooserOpen, recSession,
                   readers>>

\* l.129-161: the handler up to its first await
HandleSendMessageSubmit ==
    /\ CanSend
    /\ messages' = Append(messages, UserMessage)
    /\ nextId' = nextId + 1
    /\ inputText' = EmptyStr
    /\ removeImage
    /\ isLoading' = TRUE
    /\ fetchCalls' = fetchCalls + 1
    /\ handlers' = handlers \cup {Handler(fetchCalls + 1, "fetch", RequestBody)}
    /\ UNCHANGED <<selectedAgent, isListening, hasRecognition, chooserOpen, recSession,
                   readers>>

\* the send button and the Enter key both call handleSendMessage
\* (l.202-207, l.416)
HandleSendMessage == HandleSendMessageReturn \/ HandleSendMessageSubmit

\* fetch() resolves with a Response (l.145): the call goes on to await the
\* body (l.163)
FetchResolves(h) ==
    /\ h.pc = "fetch"
    /\ handlers' = (handlers \ {h}) \cup {Handler(h.call, "json", h.body)}
    /\ UNCHANGED <<messages, inputText, selectedAgent, isLoading,
                   selectedImage, imagePreview, isListening, fileInputValue,
                   hasRecognition, chooserOpen, recSession, readers, fetchCalls, nextId>>

\* variant of FetchRejects: the catch block posts the request again
FetchRejectsRetries(h) ==
    /\ h.pc = "fetch"
    /\ fetchCalls' = fetchCalls + 1
    /\ UNCHANGED <<messages, inputText, selectedAgent, isLoading,
                   selectedImage, imagePreview, isListening, fileInputValue,
                   hasRecognition, chooserOpen, recSession, readers, handlers, nextId>>

\* fetch() rejects: catch and finally (l.186-198)
FetchRejects(h) ==
    /\ h.pc = "fetch"
    /\ AppendAndSettle(h, ConnectErrorMessage)
    /\ UNCHANGED <<inputText, selectedAgent, selectedImage, imagePreview,
                   isListening, fileInputValue, hasRecognition, chooserOpen, recSession,
                   readers, fetchCalls>>

\* response.json() resolves with data (l.163-184); reading data.success of
\* the JSON value null throws a TypeError, which the catch block handles
JsonResolves(h, data) ==
    /\ h.pc = "json"
    /\ IF data.kind = "null"
       THEN AppendAndSettle(h, ConnectErrorMessage)
       ELSE IF Truthy(data.success)
       THEN AppendAndSettle(h, AssistantMessage(data))
       ELSE AppendAndSettle(h, ErrorMessage(data))
    /\ UNCHANGED <<inputText, selectedAgent, selectedImage, imagePreview,
                   isListening, fileInputValue, hasRecognition, chooserOpen, recSession,
                   readers, fetchCalls>>

\* response.json() rejects (the body is not JSON): catch and finally
JsonRejects(h) ==
    /\ h.pc = "json"
    /\ AppendAndSettle(h, ConnectErrorMessage)
    /\ UNCHANGED <<inputText, selectedAgent, selectedImage, imagePreview,
                   isListening, fileInputValue, hasRecognition, chooserOpen, recSession,
                   readers, fetchCalls>>

----------------------------------------------------------------------------
(* Specification: every event of the session *)

Next ==
    \/ \E t \in Texts : SetInputText(t)
    \/ \E a \in AGENTS : SetSelectedAgent(a)
    \/ ClickAttachImage
    \/ ChooserCancelled
    \/ \E f \in Files : PendingReaders < MaxReaders /\ HandleImageSelect(f)
    \/ HandleImageSelectNoFile
    \/ \E f \in Files, ok \in BOOLEAN : ReaderOnLoadEnd(f, ok)
    \/ ClickRemoveImage
    \/ ToggleVoiceInput
    \/ \E t \in Transcripts : RecognitionOnResult(t)
    \/ RecognitionOnError
    \/ RecognitionOnEnd
    \/ HandleSendMessageReturn
    \/ fetchCalls < MaxSubmits /\ HandleSendMessageSubmit
    \/ \E h \in handlers : FetchResolves(h)
    \/ \E h \in handlers : FetchRejects(h)
    \/ \E h \in handlers, data \in Bodies : JsonResolves(h, data)
    \/ \E h \in handlers : JsonRejects(h)

Spec == Init /\ [][Next]_vars

----------------------------------------------------------------------------
(* The submission pipeline alone: typing, agent choice, submit, transport *)

NextChat ==
    \/ \E t \in ChatTexts : SetInputText(t)
    \/ \E a \in AGENTS : SetSelectedAgent(a)
    \/ HandleSendMessageReturn
    \/ fetchCalls < MaxChatSubmits /\ HandleSendMessageSubmit
    \/ \E h \in handlers : FetchResolves(h)
    \/ \E h \in handlers : FetchRejects(h)
    \/ \E h \in handlers, data \in ChatBodies : JsonResolves(h, data)
    \/ \E h \in handlers : JsonRejects(h)

SpecChat == Init /\ [][NextChat]_vars

\* a transport event of some suspended call
TransportSettles ==
    \E h \in handlers :
        \/ FetchResolves(h)
        \/ FetchRejects(h)
        \/ \E data \in ChatBodies : JsonResolves(h, data)
        \/ JsonRejects(h)

NextLive ==
    \/ \E t \in ChatTexts : SetInputText(t)
    \/ \E a \in AGENTS : SetSelectedAgent(a)
    \/ HandleSendMessageReturn
    \/ fetchCalls < MaxLiveSubmits /\ HandleSendMessageSubmit
    \/ TransportSettles

\* the pipeline with a transport that eventually answers or fails
SpecChatLive == Init /\ [][NextLive]_vars /\ WF_vars(TransportSettles)

----------------------------------------------------------------------------
(* Long conversations: the log outgrows the history window *)

NextHistory ==
    \/ \E t \in HistoryTexts : SetInputText(t)
    \/ HandleSendMessageReturn
    \/ fetchCalls < MaxHistorySubmits /\ HandleSendMessageSubmit
    \/ \E h \in handlers : FetchResolves(h)
    \/ \E h \in handlers : FetchRejects(h)
    \/ \E h \in handlers, data \in HistoryBodies : JsonResolves(h, data)

SpecHistory == Init /\ [][NextHistory]_vars

----------------------------------------------------------------------------
(* Dictation and the submission pipeline *)

NextVoice ==
    \/ \E t \in Texts : SetInputText(t)
    \/ ToggleVoiceInput
    \/ \E t \in Transcripts : RecognitionOnResult(t)
    \/ RecognitionOnError
    \/ RecognitionOnEnd
    \/ HandleSendMessageReturn
    \/ fetchCalls < MaxVoiceSubmits /\ HandleSendMessageSubmit
    \/ \E h \in handlers : FetchResolves(h)
    \/ \E h \in handlers : FetchRejects(h)
    \/ \E h \in handlers, data \in Bodies : JsonResolves(h, data)
    \/ \E h \in handlers : JsonRejects(h)

SpecVoice == Init /\ [][NextVoice]_vars

----------------------------------------------------------------------------
(* Properties *)

Last(s) == s[Len(s)]

Min(a, b) == IF a <= b THEN a ELSE b

\* messages' is messages with exactly one turn added at the end
AppendsOneTurn ==
    /\ Len(messages') = Len(messages) + 1
    /\ SubSeq(messages', 1, Len(messages)) = messages

\* sub occurs in s
Embeds(sub, s) ==
    \E i \in 1..(Len(s) - Len(sub) + 1) : SubSeq(s, i, i + Len(sub) - 1) = sub

\* some step appended a user turn
AppendsUserTurn ==
    /\ Len(messages') > Len(messages)
    /\ \E i \in (Len(messages) + 1)..Len(messages') : messages'[i].role = "user"

\* C1: the log holds the welcome turn, two turns (user, then assistant) for
\* every settled exchange and one user turn for an exchange in flight; so
\* each settled exchange lengthens it by exactly 2.
C1_ExchangeAddsTwoTurns ==
    /\ Len(messages) = 1 + 2 * fetchCalls - Cardinality(handlers)
    /\ handlers = {} /\ fetchCalls > 0 =>
          /\ messages[Len(messages) - 1].role = "user"
          /\ Last(messages).role = "assistant"

C1_Witness ==
    /\ handlers = {}
    /\ fetchCalls = 3
    /\ Len(messages) = 7
    /\ messages[3].content = FailedToConnect
    /\ messages[5].content = ErrorPrefix \o FailedToProcess
    /\ messages[7].content = <<"**ok**">>

\* C2: at most one request is in flight, and while the pipeline is sending
\* no step issues a request, appends a user turn or clears the draft text.
C2_NoOverlappingSends ==
    /\ [](Cardinality(handlers) <= 1)
    /\ [][isLoading =>
            /\ fetchCalls' = fetchCalls
            /\ ~AppendsUserTurn
            /\ (inputText # EmptyStr => inputText' # EmptyStr)]_vars

\* a submit can be tried while sending with a draft that is not blank
C2_Witness ==
    /\ isLoading
    /\ Cardinality(handlers) = 1
    /\ Truthy(Trim(inputText))
    /\ fetchCalls < MaxVoiceSubmits

\* C3: from a state whose draft text is empty and that holds no image, no
\* step (a submit included) issues a request or appends a user turn, and an
\* idle pipeline stays idle.
C3_EmptySubmitIsNoOp ==
    [][(inputText = EmptyStr /\ selectedImage = Null /\ imagePreview = Null) =>
            /\ fetchCalls' = fetchCalls
            /\ ~AppendsUserTurn
            /\ {h.call : h \in handlers'} \subseteq {h.call : h \in handlers}
            /\ (~isLoading => ~isLoading')]_vars

\* an empty draft in an idle session that has already completed an exchange
C3_Witness ==
    /\ inputText = EmptyStr
    /\ selectedImage = Null
    /\ imagePreview = Null
    /\ ~isLoading
    /\ handlers = {}
    /\ Len(messages) = 3

\* C4: the history of the request in flight is the last (at most 10) turns
\* of the log as it was before the request's own user turn was appended,
\* oldest first, each with its role, content and agent.
C4_HistoryIsTrailingWindow ==
    \A h \in handlers :
        LET prior == SubSeq(messages, 1, Len(messages) - 1)
            hist  == h.body.history
            skip  == Len(prior) - Len(hist)
        IN  /\ Len(hist) = Min(Len(prior), 10)
            /\ \A i \in 1..Len(hist) :
                  /\ hist[i].role = prior[skip + i].role
                  /\ hist[i].content = prior[skip + i].content
                  /\ hist[i].agent = prior[skip + i].agent

\* a request whose history was cut: 11 turns preceded it, 10 were sent
C4_Witness ==
    \E h \in handlers :
        /\ Len(messages) = 12
        /\ Len(h.body.history) = 10
        /\ h.body.history[1].role = "user"
        /\ h.body.history[1].content = messages[2].content
        /\ h.body.history[10].content = FailedToConnect

\* C5: with a transport that eventually answers or fails, a pipeline that
\* is sending eventually is idle again with no call left suspended, whatever
\* the outcome; and an idle pipeline with a draft that is not blank is one
\* whose submit is not refused.
C5_SendingLeadsToIdle ==
    /\ (isLoading \/ handlers # {}) ~> (~isLoading /\ handlers = {})
    /\ [](handlers = {} /\ Truthy(Trim(inputText)) => ~isLoading)

\* a second exchange in flight after the first one failed
C5_Witness ==
    /\ fetchCalls = 2
    /\ isLoading
    /\ Len(messages) = 4
    /\ messages[3].content = FailedToConnect
    /\ messages[4].role = "user"

\* C6: the step that issues a request appends the user turn, enters sending
\* and leaves the draft empty (text, file handle, preview); a step that
\* appends an assistant turn (any of the three outcomes) leaves the draft as
\* it was.
C6_SubmitClearsDraft ==
    [][/\ fetchCalls' # fetchCalls =>
            /\ AppendsOneTurn
            /\ Last(messages').role = "user"
            /\ isLoading'
            /\ inputText' = EmptyStr
            /\ selectedImage' = Null
            /\ imagePreview' = Null
       /\ (Len(messages') > Len(messages) /\ Last(messages').role = "assistant") =>
            UNCHANGED <<inputText, selectedImage, imagePreview>>]_vars

\* just after the submit of a draft that held text and an encoded image
C6_Witness ==
    /\ isLoading
    /\ Last(messages).role = "user"
    /\ Last(messages).content = <<"hi">>
    /\ Last(messages).image = DataURL(File("A"))
    /\ inputText = EmptyStr
    /\ selectedImage = Null
    /\ imagePreview = Null

\* C7: when response.json() yields an object whose success is false, exactly
\* one assistant turn is appended; its content embeds the error string, or
\* the generic fallback when error is absent; the call ends and the pipeline
\* is idle.
C7_FailureBodyBecomesErrorTurn ==
    [][\A h \in handlers, data \in ChatBodies :
          (data.kind = "object" /\ data.success = JsFalse /\ JsonResolves(h, data)) =>
              /\ AppendsOneTurn
              /\ Last(messages').role = "assistant"
              /\ IF data.error = Undefined
                 THEN Embeds(<<"Failed to process request">>, Last(messages').content)
                 ELSE Embeds(data.error, Last(messages').content)
              /\ ~isLoading'
              /\ handlers' = {}]_vars

\* an idle log holding both kinds of error turn
C7_Witness ==
    /\ ~isLoading
    /\ \E i \in 1..Len(messages) :
          messages[i].content = <<"Error: ", "rate", " ", "limited">>
    /\ \E i \in 1..Len(messages) :
          messages[i].content = <<"Error: ", "Failed to process request">>

\* C8: when fetch or response.json() rejects, exactly one assistant turn
\* with the fixed failed-to-connect content is appended behind the user
\* turn of the request, the pipeline is idle, and the step does not touch
\* the draft (it was cleared by the submit).
C8_TransportFailureBecomesFallbackTurn ==
    [][\A h \in handlers :
          (FetchRejects(h) \/ JsonRejects(h)) =>
              /\ AppendsOneTurn
              /\ Last(messages).role = "user"
              /\ Last(messages').role = "assistant"
              /\ Last(messages').content =
                    <<"Failed to connect to the server. Please ensure the backend is running.">>
              /\ ~isLoading'
              /\ handlers' = {}
              /\ UNCHANGED <<inputText, selectedImage, imagePreview>>]_vars

\* the fallback turn behind the user turn of an image submit
C8_Witness ==
    /\ ~isLoading
    /\ Len(messages) = 3
    /\ messages[2].role = "user"
    /\ messages[2].image = DataURL(File("A"))
    /\ messages[3].content = FailedToConnect
    /\ inputText = EmptyStr
    /\ selectedImage = Null

\* C9: when response.json() yields an object whose success is true, the
\* appended turn has role assistant and carries the body's response, agent
\* and requires_validation.
C9_SuccessBodyBecomesAssistantTurn ==
    [][\A h \in handlers, data \in ChatBodies :
          (data.kind = "object" /\ data.success = JsTrue /\ JsonResolves(h, data)) =>
              /\ AppendsOneTurn
              /\ Last(messages').role = "assistant"
              /\ Last(messages').content = data.response
              /\ Last(messages').agent = data.agent
              /\ Last(messages').requiresValidation = data.requires_validation]_vars

\* a log holding the turn of a flagged reply and the turn of a plain one
C9_Witness ==
    /\ \E i \in 1..Len(messages) :
          /\ messages[i].content = <<"**ok**">>
          /\ messages[i].agent = <<"Medical Chat">>
          /\ messages[i].requiresValidation = JsTrue
    /\ \E i \in 1..Len(messages) :
          /\ messages[i].content = <<"plain">>
          /\ messages[i].agent = Undefined
          /\ messages[i].requiresValidation = Undefined

\* C10: every step leaves the log it found as a prefix of the log it leaves.
C10_LogIsAppendOnly ==
    [][/\ Len(messages') >= Len(messages)
       /\ SubSeq(messages', 1, Len(messages)) = messages]_vars

\* a settled exchange in a session that also saw image, voice and agent events
C10_Witness ==
    /\ Len(messages) = 3
    /\ imagePreview # Null
    /\ selectedAgent # "auto"
    /\ inputText = <<"chest", " ", "pain">>

----------------------------------------------------------------------------
(* Two images: selection, encoding, removal and the submission pipeline *)

NextImage ==
    \/ \E t \in ImageTexts : SetInputText(t)
    \/ ClickAttachImage
    \/ ChooserCancelled
    \/ \E f \in ImageFiles : PendingReaders < MaxImageReaders /\ HandleImageSelect(f)
    \/ HandleImageSelectNoFile
    \/ \E f \in ImageFiles, ok \in BOOLEAN : ReaderOnLoadEnd(f, ok)
    \/ ClickRemoveImage
    \/ HandleSendMessageReturn
    \/ fetchCalls < MaxImageSubmits /\ HandleSendMessageSubmit
    \/ \E h \in handlers : FetchResolves(h)
    \/ \E h \in handlers : FetchRejects(h)
    \/ \E h \in handlers, data \in ImageBodies : JsonResolves(h, data)

SpecImage == Init /\ [][NextImage]_vars

\* C11: once image A and then image B have been attached and no encoding
\* is pending any more, the attachment is B in both forms: a preview that
\* is shown beside the handle of B is the encoding of B, whichever reader
\* finished first.
C11_LastAttachedImageWins ==
    (selectedImage = File("B") /\ PendingReaders = 0 /\ imagePreview # Null) =>
        imagePreview = DataURL(File("B"))

\* C12: a submit accepted from a draft whose text is blank is one whose
\* image has been encoded: the preview is available, so the request carries
\* an image.
C12_ImageOnlySendWaitsForEncoding ==
    [][(fetchCalls' # fetchCalls /\ ~Truthy(Trim(inputText))) =>
            /\ Truthy(imagePreview)
            /\ \A h \in handlers' \ handlers : h.body.image # Null]_vars

\* C13 as claimed: in every sending state the draft can still be edited, by
\* typing and by opening the file chooser to attach an image.
C13_DraftEditableWhileSending ==
    isLoading =>
        /\ ENABLED (\E t \in Texts : SetInputText(t))
        /\ ENABLED ClickAttachImage

\* C13 as amended: while the pipeline is sending the textarea, the attach
\* button and the voice button are disabled like the send button: no step
\* types into the draft (its text changes only to a transcript of a capture
\* started earlier), opens the file chooser, starts a voice capture or
\* issues a request; a file is attached only by a chooser that was opened
\* before the submit.
C13_DraftControlsDisabledWhileSending ==
    [][isLoading =>
            /\ (inputText' # inputText => inputText' \in Transcripts)
            /\ (chooserOpen' => chooserOpen)
            /\ (selectedImage' \notin {selectedImage, Null} =>
                    (chooserOpen /\ ~chooserOpen'))
            /\ \A f \in ImageFiles :
                  readers'[f] > readers[f] => (chooserOpen /\ ~chooserOpen')
            /\ (isListening' => isListening)
            /\ fetchCalls' = fetchCalls]_vars

\* a sending state whose draft text was set by a late transcript and whose
\* image was delivered by a chooser opened before the submit
C13_Witness ==
    /\ isLoading
    /\ handlers # {}
    /\ inputText \in Transcripts
    /\ selectedImage = File("A")
    /\ ~chooserOpen

\* C14: the step of recognition.onresult leaves the draft text equal to the
\* transcript delivered, whatever the text was, and the capture state idle.
C14_TranscriptReplacesDraftText ==
    [][\A t \in Transcripts :
          RecognitionOnResult(t) => (inputText' = t /\ ~isListening')]_vars

\* right after a transcript has arrived
C14_Witness ==
    /\ hasRecognition
    /\ recSession = "ending"
    /\ ~isListening
    /\ inputText = <<"chest", " ", "pain">>

\* C15: without a speech-recognition capability the voice control does
\* nothing, so the capture state is never listening.
C15_NoRecogniserVoiceIsNoOp ==
    ~hasRecognition => ~isListening

\* C16 (its last part): start is issued to the recogniser only when no
\* session is active; so whenever the voice control is enabled and would
\* issue start (the capture state is idle), the recogniser is not capturing.
C16_StartOnlyWhenNoSession ==
    (hasRecognition /\ ~isLoading /\ ~isListening) => recSession # "capturing"

\* C17: the steps of recognition.onerror and recognition.onend leave the
\* capture state idle and the draft text, the attached image, the log and
\* the request lifecycle as they were.
C17_VoiceErrorOrEndOnlyResetsCapture ==
    [][(RecognitionOnError \/ RecognitionOnEnd) =>
            /\ ~isListening'
            /\ UNCHANGED <<inputText, selectedImage, imagePreview, messages,
                           isLoading, handlers, fetchCalls>>]_vars

\* after a capture that ended without a transcript, the typed draft, the
\* attached image and the request in flight are still there
C17_Witness ==
    /\ hasRecognition
    /\ recSession = "ending"
    /\ ~isListening
    /\ inputText = <<" ", "hi", " ">>
    /\ selectedImage = File("A")
    /\ imagePreview = DataURL(File("A"))

\* C18: the selected agent starts as auto and is always one of the four
\* agents; a step that changes it is an agent selection (it starts no request
\* and touches neither the log nor the request lifecycle); every request
\* posted by a submit carries the agent selected at that moment.
C18_AgentIsRoutingHint ==
    /\ selectedAgent = "auto"
    /\ [](selectedAgent \in {"auto", "medical-chat", "prescription", "multi-agent"})
    /\ [][/\ selectedAgent' # selectedAgent =>
                UNCHANGED <<messages, isLoading, handlers, fetchCalls, inputText>>
          /\ \A h \in handlers' :
                h.call \notin {g.call : g \in handlers} =>
                    h.body.agent_type = selectedAgent]_vars

\* a request posted for one agent is in flight while another is selected
C18_Witness ==
    /\ selectedAgent = "multi-agent"
    /\ \E h \in handlers : h.body.agent_type = "prescription"

\* some character of s is not whitespace
NonBlank(s) == \E i \in 1..Len(s) : s[i] # " "

\* t is s without its leading and trailing whitespace
IsTrimOf(t, s) ==
    /\ Len(t) > 0
    /\ t[1] # " "
    /\ t[Len(t)] # " "
    /\ \E i \in 1..Len(s) :
          /\ i + Len(t) - 1 <= Len(s)
          /\ SubSeq(s, i, i + Len(t) - 1) = t
          /\ \A k \in 1..Len(s) : (k < i \/ k > i + Len(t) - 1) => s[k] = " "

\* C19: a step that posts a request appends a user turn whose content is the
\* request's message field; that content is the trimmed draft text when the
\* text is not blank, and "Analyze this image" when it is blank, in which
\* case an image is attached; a blank draft with no image posts nothing.
C19_MessageIsUserTurnContent ==
    [][/\ fetchCalls' # fetchCalls =>
            /\ Last(messages').role = "user"
            /\ \A h \in handlers' \ handlers :
                  h.body.message = Last(messages').content
            /\ IF NonBlank(inputText)
               THEN IsTrimOf(Last(messages').content, inputText)
               ELSE /\ Last(messages').content = <<"Analyze this image">>
                    /\ selectedImage # Null
       /\ (~NonBlank(inputText) /\ selectedImage = Null) =>
            (fetchCalls' = fetchCalls /\ ~AppendsUserTurn)]_vars

\* an image-only submit is in flight with the fixed message
C19_Witness ==
    /\ Last(messages).role = "user"
    /\ Last(messages).content = <<"Analyze this image">>
    /\ \E h \in handlers :
          /\ h.body.message = <<"Analyze this image">>
          /\ h.body.image = DataURL(File("A"))

\* the user turns of the log
UserTurns == {i \in 1..Len(messages) : messages[i].role = "user"}

\* C20: the number of requests posted equals the number of user turns in
\* the log, whatever the outcomes of the earlier requests were.
C20_OneRequestPerUserTurn ==
    fetchCalls = Cardinality(UserTurns)

\* three submits, the first two of which failed in different ways
C20_Witness ==
    /\ fetchCalls = 3
    /\ Cardinality(UserTurns) = 3
    /\ Len(messages) = 6
    /\ messages[3].content = FailedToConnect
    /\ messages[5].content = ErrorPrefix \o <<"rate", " ", "limited">>

\* C21: a step that takes the lifecycle out of sending is a transport event
\* of a suspended call (fetch rejected, or the response body read or failed
\* to read), and it ends that call; every other step taken while sending
\* leaves the lifecycle in sending.
C21_SendingEndsOnlyOnTransportEvent ==
    [][(isLoading /\ ~isLoading') =>
            /\ \E h \in handlers :
                  \/ FetchRejects(h)
                  \/ JsonRejects(h)
                  \/ \E data \in Bodies : JsonResolves(h, data)
            /\ \E h \in handlers : h.call \notin {g.call : g \in handlers'}]_vars

\* still sending after an agent selection, an encoding completion and a
\* finished voice capture that all happened during the request
C21_Witness ==
    /\ isLoading
    /\ handlers # {}
    /\ selectedAgent = "prescription"
    /\ imagePreview = DataURL(File("A"))
    /\ recSession = "ending"

\* C22: the log starts with the assistant welcome turn and its roles
\* alternate assistant, user, assistant, ...; an idle lifecycle has a log of
\* odd length that ends with an assistant turn, a sending one has a log of
\* even length that ends with the user turn awaiting its reply.
C22_RolesAlternate ==
    /\ Len(messages) >= 1
    /\ messages[1] = WelcomeMessage
    /\ messages[1].role = "assistant"
    /\ \A i \in 1..(Len(messages) - 1) : messages[i].role # messages[i + 1].role
    /\ \A i \in 1..Len(messages) : messages[i].role \in {"assistant", "user"}
    /\ ~isLoading => (Len(messages) % 2 = 1 /\ Last(messages).role = "assistant")
    /\ isLoading => (Len(messages) % 2 = 0 /\ Last(messages).role = "user")

\* the third exchange is in flight after a failed and a successful one
C22_Witness ==
    /\ isLoading
    /\ Len(messages) = 6
    /\ messages[3].agent = System
    /\ messages[5].content = <<"**ok**">>
    /\ Last(messages).content = <<"a", " ", "b">>

\* C23: whenever the preview is present, the raw handle is present and the
\* preview is the encoding of that file; so an encoding that completes after
\* the image was removed or submitted does not bring the preview back.
C23_PreviewMatchesHandle ==
    Truthy(imagePreview) =>
        (selectedImage # Null /\ imagePreview = DataURL(selectedImage))

\* C24: a step that posts a request stores on the appended user turn and
\* puts in the request the same image: the preview of the draft when there
\* is one, and no image otherwise (undefined on the turn, null in the JSON
\* body); the draft's preview is cleared by the same step.
C24_TurnImageIsRequestImage ==
    [][fetchCalls' # fetchCalls =>
            /\ imagePreview' = Null
            /\ \A h \in handlers' \ handlers :
                  IF Truthy(imagePreview)
                  THEN /\ Last(messages').image = imagePreview
                       /\ h.body.image = imagePreview
                  ELSE /\ Last(messages').image = Undefined
                       /\ h.body.image = Null]_vars

\* a request carrying the encoded image is in flight, its user turn shows
\* the same image and the draft's image is gone
C24_Witness ==
    /\ imagePreview = Null
    /\ selectedImage = Null
    /\ Last(messages).role = "user"
    /\ Last(messages).image = DataURL(File("A"))
    /\ \E h \in handlers : h.body.image = DataURL(File("A"))

\* C25: a voice transcript is written into the draft only in a step taken
\* while the capture state is listening and the lifecycle is idle; so a
\* session started before a submit, or stopped through the voice control,
\* writes no transcript after the submit cleared the draft or while the
\* request is in flight.
C25_TranscriptOnlyWhileListeningAndIdle ==
    [][\A t \in Transcripts :
          RecognitionOnResult(t) => (isListening /\ ~isLoading)]_vars

====
